---- MODULE Spec2Model ----
(***************************************************************************)
(* Model of ARtest.py: the state-tax-aware cost-of-capital formula         *)
(* eq_coc_state, the scenario evaluator compute_outputs, and the           *)
(* module-level reporting pipeline that evaluates three policy scenarios   *)
(* and reshapes the results into one long table.                           *)
(*                                                                         *)
(* Numbers.  Python floats are IEEE-754 binary64 values and are modelled   *)
(* as such: a finite number is a sign, a significand of at most 53 bits    *)
(* and a binary exponent, and every arithmetic operation rounds its exact  *)
(* result to the nearest representable value, ties to even, with gradual   *)
(* underflow and overflow to infinity.  Significands do not fit a machine  *)
(* integer of the checker, so they are kept as sequences of 15-bit limbs.  *)
(* Every number carries its Python type ("py" for a built-in float or int, *)
(* "np" for a numpy scalar) because the two types disagree on division by  *)
(* zero, and its class (finite, +inf, -inf, nan).  A raised                *)
(* ZeroDivisionError is the absorbing class "exc".                         *)
(***************************************************************************)
EXTENDS Integers, Sequences, FiniteSets, TLC

----------------------------------------------------------------------------
(* Natural numbers of any size: little-endian sequences of limbs in        *)
(* 0 .. Base - 1 whose last limb is not zero; zero is the empty sequence.  *)
(* An intermediate value used more than once is passed as the argument of  *)
(* an auxiliary operator.                                                  *)

LimbBits == 15
Base == 2^15

Max(x, y) == IF x >= y THEN x ELSE y
Min(x, y) == IF x <= y THEN x ELSE y

RECURSIVE BNorm(_)
BNorm(a) ==
    IF a = <<>> THEN <<>>
    ELSE IF a[Len(a)] = 0 THEN BNorm(SubSeq(a, 1, Len(a) - 1))
    ELSE a

\* 0 <= n < 2^31
BFromInt(n) == BNorm(<<n % Base, (n \div Base) % Base, n \div (Base * Base)>>)

Limb(a, j) == IF 1 <= j /\ j <= Len(a) THEN a[j] ELSE 0

RECURSIVE BCmpFrom(_, _, _)
BCmpFrom(a, b, j) ==
    IF j = 0 THEN 0
    ELSE IF Limb(a, j) < Limb(b, j) THEN -1
    ELSE IF Limb(a, j) > Limb(b, j) THEN 1
    ELSE BCmpFrom(a, b, j - 1)

\* -1, 0, 1 as a < b, a = b, a > b
BCmp(a, b) == BCmpFrom(a, b, Max(Len(a), Len(b)))

RECURSIVE BAddFrom(_, _, _, _)
\* t is the total of column j, the carry included
BAddFrom(a, b, j, t) ==
    IF j > Len(a) /\ j > Len(b) /\ t = 0 THEN <<>>
    ELSE <<t % Base>>
         \o BAddFrom(a, b, j + 1, Limb(a, j + 1) + Limb(b, j + 1) + t \div Base)

BAdd(a, b) == BAddFrom(a, b, 1, Limb(a, 1) + Limb(b, 1))

RECURSIVE BSubFrom(_, _, _, _)
\* t is the difference of column j, the borrow included
BSubFrom(a, b, j, t) ==
    IF j > Len(a) THEN <<>>
    ELSE <<t % Base>>
         \o BSubFrom(a, b, j + 1,
                     Limb(a, j + 1) - Limb(b, j + 1) - (IF t < 0 THEN 1 ELSE 0))

\* a - b for a >= b
BSub(a, b) == BNorm(BSubFrom(a, b, 1, Limb(a, 1) - Limb(b, 1)))

RECURSIVE BMulLimbFrom(_, _, _, _)
\* t is the total of column j, the carry included
BMulLimbFrom(a, d, j, t) ==
    IF j > Len(a) /\ t = 0 THEN <<>>
    ELSE <<t % Base>>
         \o BMulLimbFrom(a, d, j + 1, Limb(a, j + 1) * d + t \div Base)

\* a * d for one limb d
BMulLimb(a, d) == IF d = 0 THEN <<>> ELSE BMulLimbFrom(a, d, 1, Limb(a, 1) * d)

\* a * Base^n
BShlLimbs(a, n) == IF a = <<>> THEN <<>> ELSE [j \in 1..n |-> 0] \o a

RECURSIVE BMulFrom(_, _, _)
BMulFrom(a, b, j) ==
    IF j > Len(b) THEN <<>>
    ELSE BAdd(BShlLimbs(BMulLimb(a, b[j]), j - 1), BMulFrom(a, b, j + 1))

BMul(a, b) == BMulFrom(a, b, 1)

\* a * 2^n
BShl(a, n) == BShlLimbs(BMulLimb(a, 2^(n % LimbBits)), n \div LimbBits)

RECURSIVE BDivLimbFrom(_, _, _, _)
\* the quotient limbs j .. 1 of (t * Base^(j-1) + a mod Base^(j-1)) / d,
\* where t is the remainder so far followed by limb j
BDivLimbFrom(a, d, j, t) ==
    IF j = 0 THEN <<>>
    ELSE BDivLimbFrom(a, d, j - 1, (t % d) * Base + Limb(a, j - 1))
         \o <<t \div d>>

\* floor(a / d) for one limb d > 0
BDivLimb(a, d) == BNorm(BDivLimbFrom(a, d, Len(a), Limb(a, Len(a))))

\* floor(a / 2^n)
BShr(a, n) ==
    IF n \div LimbBits >= Len(a) THEN <<>>
    ELSE BDivLimb(SubSeq(a, n \div LimbBits + 1, Len(a)), 2^(n % LimbBits))

\* bit n of a, bit 0 the least significant
BBit(a, n) == (Limb(a, n \div LimbBits + 1) \div 2^(n % LimbBits)) % 2

\* the n low bits of a are all zero
BLowZero(a, n) ==
    /\ \A j \in 1..(n \div LimbBits) : Limb(a, j) = 0
    /\ Limb(a, n \div LimbBits + 1) % 2^(n % LimbBits) = 0

RECURSIVE IntBitLen(_)
IntBitLen(n) == IF n = 0 THEN 0 ELSE 1 + IntBitLen(n \div 2)

\* the number of bits of a
BBitLen(a) ==
    IF a = <<>> THEN 0 ELSE LimbBits * (Len(a) - 1) + IntBitLen(a[Len(a)])

BOne == <<1>>

\* the quotient limbs q extended by the limb c, and the remainder R - c * d
DivTake(q, R, d, c) == <<<<c>> \o q, BSub(R, BMulLimb(d, c))>>

\* the estimate qhat of floor(R / d) overshoots by at most 2
DivCorrect(q, R, d, qhat) ==
    DivTake(q, R, d,
            IF BCmp(BMulLimb(d, qhat), R) <= 0 THEN qhat
            ELSE IF BCmp(BMulLimb(d, qhat - 1), R) <= 0 THEN qhat - 1
            ELSE qhat - 2)

\* one more limb of a quotient: st holds the quotient limbs so far and the
\* remainder rem < d, the last limb of d is at least Base / 2; the limb
\* floor(rem * Base / d) is estimated from the leading limbs
DivDigit(st, d) ==
    DivCorrect(st[1], BShlLimbs(st[2], 1), d,
               Min(Base - 1,
                   (Limb(st[2], Len(d)) * Base + Limb(st[2], Len(d) - 1))
                      \div d[Len(d)]))

RECURSIVE BQuotFrom(_, _, _)
\* n more limbs of the quotient
BQuotFrom(st, d, n) ==
    IF n = 0 THEN st ELSE BQuotFrom(DivDigit(st, d), d, n - 1)

BQuotGe(a, d, n, ge) ==
    BQuotFrom(<<IF ge THEN BOne ELSE <<>>, IF ge THEN BSub(a, d) ELSE a>>, d, n)

BQuotNorm(st) == <<BNorm(st[1]), st[2]>>

\* floor(a * Base^n / d) and the remainder, for a < 2 * d and a divisor d
\* whose last limb is at least Base / 2
BQuot(a, d, n) == BQuotNorm(BQuotGe(a, d, n, BCmp(a, d) >= 0))

----------------------------------------------------------------------------
(* Binary64 values *)

Precision == 53
MinExp == -1074
MaxExp == 971

\* the finite value (-1)^sign * man * 2^exp
Fin(k, s, m, e) == [kind |-> k, cls |-> "fin", sign |-> s, man |-> m, exp |-> e]
Special(k, c) == [kind |-> k, cls |-> c, sign |-> 0, man |-> <<>>, exp |-> 0]
Zero(k, s) == Fin(k, s, <<>>, 0)
Exc == Special("py", "exc")
Unset == Special("none", "unset")
Signed(k, s) == IF s = 0 THEN Special(k, "inf") ELSE Special(k, "ninf")

\* a significand of at most 53 bits with its exponent, or infinity when the
\* exponent is out of range
Pack(k, s, m, e) ==
    IF m = <<>> THEN Zero(k, s)
    ELSE IF e > MaxExp THEN Signed(k, s)
    ELSE Fin(k, s, m, e)

\* a rounded significand of 54 bits is a power of two
RoundCarry(k, s, m, e, carry) ==
    Pack(k, s, IF carry THEN BShr(m, 1) ELSE m, IF carry THEN e + 1 ELSE e)

RoundUp(k, s, m, e) == RoundCarry(k, s, m, e, BBitLen(m) > Precision)

\* M loses its sh low bits; it is rounded up when the first bit lost is set
\* and either a lower bit (or the sticky part) is, or the last bit kept is
RoundShift(k, s, M, E, sticky, sh) ==
    IF sh <= 0 THEN Pack(k, s, BShl(M, -sh), E + sh)
    ELSE RoundUp(k, s,
                 IF /\ BBit(M, sh - 1) = 1
                    /\ (sticky \/ ~BLowZero(M, sh - 1) \/ BBit(M, sh) = 1)
                 THEN BAdd(BShr(M, sh), BOne) ELSE BShr(M, sh),
                 E + sh)

\* the binary64 value nearest to (-1)^s * (M + f) * 2^E, ties to even, where
\* 0 < f < 1 if sticky and f = 0 otherwise
RoundPack(k, s, M, E, sticky) ==
    IF M = <<>> THEN Zero(k, s)
    ELSE RoundShift(k, s, M, E, sticky,
                    Max(BBitLen(M) - Precision, MinExp - E))

\* the Python int literal n
Int2Num(n) ==
    RoundPack("py", IF n < 0 THEN 1 ELSE 0, BFromInt(IF n < 0 THEN -n ELSE n),
              0, FALSE)

IsFin(a) == a.cls = "fin"
IsZero(a) == a.cls = "fin" /\ a.man = <<>>
\* 0 for positive values and 1 for negative ones (zeros and infinities
\* included)
SignBit(a) == IF a.cls = "ninf" THEN 1 ELSE IF a.cls = "inf" THEN 0 ELSE a.sign
Xor(s, t) == IF s = t THEN 0 ELSE 1

\* the numpy scalar of the same value
AsNp(a) == [a EXCEPT !.kind = "np"]

\* a binary operation yields a numpy scalar as soon as one operand is one
KJoin(a, b) == IF a.kind = "py" /\ b.kind = "py" THEN "py" ELSE "np"

Neg(a) ==
    IF a.cls = "fin" THEN [a EXCEPT !.sign = 1 - a.sign]
    ELSE IF a.cls = "inf" THEN Special(a.kind, "ninf")
    ELSE IF a.cls = "ninf" THEN Special(a.kind, "inf")
    ELSE a

\* operands further apart than this many binary places do not overlap
FarApart == 64

\* the sum of the magnitudes Mb and Ms with the signs sb and ss, in units of
\* 2^e; c compares Mb with Ms
AddSigned(k, sb, Mb, ss, Ms, e, sticky, c) ==
    IF sb # ss /\ c = 0 THEN Zero(k, 0)
    ELSE RoundPack(k, IF sb = ss \/ c > 0 THEN sb ELSE ss,
                   IF sb = ss THEN BAdd(Mb, Ms)
                   ELSE IF c > 0 THEN BSub(Mb, Ms) ELSE BSub(Ms, Mb),
                   e, sticky)

AddAligned(k, sb, Mb, ss, Ms, e, sticky) ==
    AddSigned(k, sb, Mb, ss, Ms, e, sticky, BCmp(Mb, Ms))

\* the sum of two finite non-zero numbers, big.exp >= small.exp.  When the
\* operands are far apart the small one only decides the rounding: the big
\* one is taken with two more places and the small one as less than a unit
\* of the last of them.
AddFin(k, big, small) ==
    IF big.exp - small.exp > FarApart
    THEN AddAligned(k, big.sign, BShl(big.man, 2), small.sign,
                    IF big.sign = small.sign THEN <<>> ELSE BOne,
                    big.exp - 2, TRUE)
    ELSE AddAligned(k, big.sign, BShl(big.man, big.exp - small.exp),
                    small.sign, small.man, small.exp, FALSE)

Add(a, b) ==
    IF a.cls = "exc" \/ b.cls = "exc" THEN Exc
    ELSE IF a.cls = "nan" \/ b.cls = "nan" THEN Special(KJoin(a, b), "nan")
    ELSE IF IsFin(a) /\ IsFin(b) THEN
             IF IsZero(a) /\ IsZero(b)
             THEN Zero(KJoin(a, b), IF a.sign = b.sign THEN a.sign ELSE 0)
             ELSE IF IsZero(a) THEN [b EXCEPT !.kind = KJoin(a, b)]
             ELSE IF IsZero(b) THEN [a EXCEPT !.kind = KJoin(a, b)]
             ELSE AddFin(KJoin(a, b), IF a.exp >= b.exp THEN a ELSE b,
                         IF a.exp >= b.exp THEN b ELSE a)
    ELSE IF ~IsFin(a) /\ ~IsFin(b) /\ a.cls # b.cls
         THEN Special(KJoin(a, b), "nan")
    ELSE IF IsFin(a) THEN Special(KJoin(a, b), b.cls)
    ELSE Special(KJoin(a, b), a.cls)

Sub(a, b) == Add(a, Neg(b))

Mul(a, b) ==
    IF a.cls = "exc" \/ b.cls = "exc" THEN Exc
    ELSE IF a.cls = "nan" \/ b.cls = "nan" THEN Special(KJoin(a, b), "nan")
    ELSE IF IsFin(a) /\ IsFin(b)
         THEN RoundPack(KJoin(a, b), Xor(a.sign, b.sign),
                        BMul(a.man, b.man), a.exp + b.exp, FALSE)
    ELSE IF IsZero(a) \/ IsZero(b) THEN Special(KJoin(a, b), "nan")
    ELSE Signed(KJoin(a, b), Xor(SignBit(a), SignBit(b)))

\* significands are brought to this many bits, a whole number of limbs,
\* before they are divided, and the quotient is developed to as many places
DivLimbs == 4
DivBits == 60

\* qs holds the quotient of the significands and the remainder
DivRound(k, s, qs, e) == RoundPack(k, s, qs[1], e, qs[2] # <<>>)

\* the quotient of the magnitudes ma * 2^ea and mb * 2^eb, la and lb the
\* places their significands lack
DivBy(k, s, ma, ea, la, mb, eb, lb) ==
    DivRound(k, s, BQuot(BShl(ma, la), BShl(mb, lb), DivLimbs),
             (ea - la) - (eb - lb) - DivBits)

\* the quotient of two finite non-zero numbers
DivFin(k, a, b) ==
    DivBy(k, Xor(a.sign, b.sign), a.man, a.exp, DivBits - BBitLen(a.man),
          b.man, b.exp, DivBits - BBitLen(b.man))

\* variant: a zero divisor raises whatever the operand types
DivRaising(a, b) ==
    IF a.cls = "exc" \/ b.cls = "exc" \/ IsZero(b) THEN Exc
    ELSE IF a.cls = "nan" \/ b.cls = "nan" THEN Special(KJoin(a, b), "nan")
    ELSE IF IsFin(a) /\ IsFin(b) THEN
             IF IsZero(a) THEN Zero(KJoin(a, b), Xor(a.sign, b.sign))
             ELSE DivFin(KJoin(a, b), a, b)
    ELSE IF ~IsFin(a) /\ ~IsFin(b) THEN Special(KJoin(a, b), "nan")
    ELSE IF IsFin(a) THEN Zero(KJoin(a, b), Xor(SignBit(a), SignBit(b)))
    ELSE Signed(KJoin(a, b), Xor(SignBit(a), SignBit(b)))

\* true division: a zero divisor raises ZeroDivisionError between two
\* built-in numbers and yields inf or nan as soon as numpy is involved
Div(a, b) ==
    IF a.cls = "exc" \/ b.cls = "exc" THEN Exc
    ELSE IF IsZero(b) THEN
             IF KJoin(a, b) = "py" THEN Exc
             ELSE IF a.cls = "nan" \/ IsZero(a) THEN Special("np", "nan")
             ELSE Signed("np", Xor(SignBit(a), SignBit(b)))
    ELSE IF a.cls = "nan" \/ b.cls = "nan" THEN Special(KJoin(a, b), "nan")
    ELSE IF IsFin(a) /\ IsFin(b) THEN
             IF IsZero(a) THEN Zero(KJoin(a, b), Xor(a.sign, b.sign))
             ELSE DivFin(KJoin(a, b), a, b)
    ELSE IF ~IsFin(a) /\ ~IsFin(b) THEN Special(KJoin(a, b), "nan")
    ELSE IF IsFin(a) THEN Zero(KJoin(a, b), Xor(SignBit(a), SignBit(b)))
    ELSE Signed(KJoin(a, b), Xor(SignBit(a), SignBit(b)))

\* the float literal written as the decimal fraction num / den
Lit(num, den) == Div(Int2Num(num), Int2Num(den))

\* the product M * 2^E fits a significand
ExactAt(M, sh) == sh <= 0 \/ BLowZero(M, sh)
ExactProduct(M, E) == ExactAt(M, Max(BBitLen(M) - Precision, MinExp - E))

\* the product of two finite numbers is representable, so Mul is exact
ExactMul(a, b) == ExactProduct(BMul(a.man, b.man), a.exp + b.exp)

\* a == b on finite numbers (the two zeros are equal)
Equal(a, b) ==
    /\ IsFin(a) /\ IsFin(b)
    /\ \/ IsZero(a) /\ IsZero(b)
       \/ a.sign = b.sign /\ a.man = b.man /\ a.exp = b.exp

IsNegative(d) == ~IsZero(d) /\ SignBit(d) = 1

\* a < b on finite numbers
Less(a, b) == IsFin(a) /\ IsFin(b) /\ IsNegative(Sub(a, b))

One == Fin("py", 0, BShl(BOne, Precision - 1), 1 - Precision)
MinusOne == Neg(One)

----------------------------------------------------------------------------
(* numpy.exp *)

\* binary places carried by the series, a whole number of limbs
ExpBits == 90

RECURSIVE ExpSeries(_, _)
\* the Taylor series of e^x for X = x * 2^ExpBits, all terms scaled by
\* 2^ExpBits: st holds the sum of the terms before x^n / n!, that term, and n
ExpSeries(X, st) ==
    IF st[2] = <<>> THEN st[1]
    ELSE ExpSeries(X, <<BAdd(st[1], st[2]),
                        BDivLimb(BShr(BMul(st[2], X), ExpBits), st[3] + 1),
                        st[3] + 1>>)

\* the number of halvings that bring |a| below 1/2
ExpHalvings(a) == Max(0, a.exp + BBitLen(a.man) + 1)

\* floor(|a| / 2^h * 2^ExpBits) for a finite a
ExpArg(a, h) ==
    IF a.exp - h + ExpBits >= 0 THEN BShl(a.man, a.exp - h + ExpBits)
    ELSE BShr(a.man, -(a.exp - h + ExpBits))

\* M * 2^E with M shifted right by sh bits, and h
ExpShift(M, E, sh, h) ==
    <<IF sh >= 0 THEN BShr(M, sh) ELSE BShl(M, -sh), E + sh, h>>

\* M * 2^E with M brought to ExpBits bits, the low bits dropped, and h
ExpNorm(M, E, h) == ExpShift(M, E, BBitLen(M) - ExpBits, h)

RECURSIVE ExpSquare(_)
\* M * 2^E squared h times, for st = <<M, E, h>>
ExpSquare(st) ==
    IF st[3] = 0 THEN st
    ELSE ExpSquare(ExpNorm(BMul(st[1], st[1]), 2 * st[2], st[3] - 1))

ExpMagBy(a, h) ==
    ExpSquare(ExpNorm(ExpSeries(ExpArg(a, h), <<<<>>, BShl(BOne, ExpBits), 0>>),
                      -ExpBits, h))

\* e^|a| as <<M, E, 0>> standing for M * 2^E with M of ExpBits bits
ExpMag(a) == ExpMagBy(a, ExpHalvings(a))

\* e^a for a finite non-zero a and v = e^|a|; the reciprocal is the quotient
\* of 2^(ExpBits - 1) by the significand
ExpRound(a, v) ==
    RoundPack("np", 0,
              IF a.sign = 0 THEN v[1]
              ELSE BQuot(BShl(BOne, ExpBits - 1), v[1], DivLimbs)[1],
              IF a.sign = 0 THEN v[2]
              ELSE -(ExpBits - 1) - DivBits - v[2],
              TRUE)

\* numpy.exp returns a numpy scalar
NpExp(a) ==
    IF a.cls = "exc" THEN Exc
    ELSE IF a.cls = "ninf" THEN Zero("np", 0)
    ELSE IF a.cls # "fin" THEN Special("np", a.cls)
    ELSE IF IsZero(a) THEN AsNp(One)
    ELSE IF a.exp + BBitLen(a.man) > 10
         THEN IF a.sign = 0 THEN Special("np", "inf") ELSE Zero("np", 0)
    ELSE ExpRound(a, ExpMag(a))

----------------------------------------------------------------------------
(* The cost of capital *)

\* variant: w added after the gross-receipts gross-up
eq_coc_state_w_last(delta, z_f, z_s, w, u_f, u_s, tau_GR, inv_tax_credit, pi, r) ==
    Sub(Add(Div(Mul(Div(Add(Sub(r, pi), delta),
                        Add(Sub(Sub(One, u_f), u_s), Mul(u_f, u_s))),
                    Add(Sub(Sub(Sub(One, inv_tax_credit), Mul(u_f, z_f)),
                            Mul(u_s, z_s)),
                        Mul(Mul(u_f, u_s), z_s))),
                Sub(One, tau_GR)),
            w),
        delta)

eq_coc_state(delta, z_f, z_s, w, u_f, u_s, tau_GR, inv_tax_credit, pi, r) ==
    Sub(Div(Add(Mul(Div(Add(Sub(r, pi), delta),
                        Add(Sub(Sub(One, u_f), u_s), Mul(u_f, u_s))),
                    Add(Sub(Sub(Sub(One, inv_tax_credit), Mul(u_f, z_f)),
                            Mul(u_s, z_s)),
                        Mul(Mul(u_f, u_s), z_s))),
                w),
            Sub(One, tau_GR)),
        delta)

----------------------------------------------------------------------------
(* The formula library the script calls (package ccc, imported at line 6). *)
(* Its code is not part of this repository; the operators below follow the *)
(* package's formulas.  dbsl and sl go through numpy.exp and therefore      *)
(* return numpy scalars; calc_r and calc_r_prime are plain arithmetic on    *)
(* their arguments.                                                         *)

calc_r(u, nominal_int_rate, inflation_rate, ace_int_rate, f, int_haircut, E, ace) ==
    Add(Mul(f, Mul(nominal_int_rate,
                   Sub(One, Mul(Sub(One, int_haircut), u)))),
        Mul(Sub(One, f),
            Sub(Add(E, inflation_rate), Mul(ace_int_rate, ace))))

calc_r_prime(nominal_int_rate, inflation_rate, f, E) ==
    Add(Mul(f, nominal_int_rate), Mul(Sub(One, f), Add(E, inflation_rate)))

\* the present value z of dbsl, given its beta and Y_star
dbsl_z(Y, bonus, r, beta, Y_star) ==
    Add(bonus,
        Mul(Sub(One, bonus),
            Add(Mul(Div(beta, Add(beta, r)),
                    Sub(One, NpExp(Mul(Mul(MinusOne, Add(beta, r)), Y_star)))),
                Mul(Div(NpExp(Mul(Mul(MinusOne, beta), Y_star)),
                        Mul(Sub(Y, Y_star), r)),
                    Sub(NpExp(Mul(Mul(MinusOne, r), Y_star)),
                        NpExp(Mul(Mul(MinusOne, r), Y)))))))

dbsl(Y, b, bonus, r) ==
    dbsl_z(Y, bonus, r, Div(b, Y), Mul(Y, Sub(One, Div(One, b))))

sl(Y, bonus, r) ==
    Add(bonus,
        Mul(Sub(One, bonus),
            Div(Sub(One, NpExp(Mul(Mul(MinusOne, r), Y))), Mul(r, Y))))

eq_metr(rho, r_prime, pi) == Div(Sub(rho, Sub(r_prime, pi)), rho)

eq_eatr(rho, metr, p, u) ==
    Add(Mul(Div(Sub(p, rho), p), u), Mul(Div(rho, p), metr))

----------------------------------------------------------------------------
(* Program state *)

VARIABLES
    \* module-level configuration
    params,                       \* the scalar parameters of lines 50-65
    federal_bonus_depreciation, depreciation_rates, depreciation_lives,
    depreciation_methods, inv_tax_credit_s, bonus_s,
    \* the script
    pc,                           \* position in the module-level code
    base_df, ar_citcut_df, ar_frtaxrmv_df, df, fig12,
    stdout,                       \* lines printed so far
    error,                        \* the uncaught exception, or "none"
    \* the compute_outputs call in progress
    cpc,                          \* position inside compute_outputs
    args,                         \* its five arguments
    out_dict, i, r, r_prime, z_f, z_s, rho, metr, eatr,
    lib_calls,                    \* the two depreciation calls of this asset
    coc_args,                     \* the arguments last passed to eq_coc_state
    result,                       \* the mapping last returned
    passed                        \* the arguments each scenario was called with

globals == <<params, federal_bonus_depreciation, depreciation_rates,
             depreciation_lives, depreciation_methods, inv_tax_credit_s,
             bonus_s>>
tables  == <<base_df, ar_citcut_df, ar_frtaxrmv_df, df, fig12>>
locals  == <<r, r_prime, z_f, z_s, rho, metr, eatr, lib_calls, coc_args>>
vars    == <<globals, tables, locals, pc, stdout, error, cpc, args, out_dict,
             i, result, passed>>

\* iteration order of the dict literal of line 55 (and of line 90)
Assets == <<"machines", "buildings", "intangibles">>
AssetSet == {Assets[n] : n \in 1..Len(Assets)}
Metrics == <<"rho", "metr", "eatr">>
MetricSet == {Metrics[n] : n \in 1..Len(Metrics)}

\* method names a configuration may hold: the two recognized ones and one
\* that is not
MethodNames == {"dbsl", "sl", "ddb"}

\* the three scenario evaluations of lines 121-139
ScenarioSet == {"base", "citcut", "frtaxrmv"}

NoCall == [fn |-> "none", args |-> <<>>]
NoCalls == [z_f |-> NoCall, z_s |-> NoCall]
NoArgs == [u_s |-> Unset, bonus_s |-> "none", franchise_tax_rate |-> Unset,
           tau_GR |-> Unset, inv_tax_credit |-> "none"]
EmptyOut == [a \in AssetSet |-> <<>>]

\* variant: one mapping shared by all calls
SharedOut == out_dict

\* the dict literal of line 90, built anew by every call
FreshOut == [a \in AssetSet |-> <<>>]

\* variant: any other name is taken for straight-line
RecognizedAny(m) == TRUE

\* the tests of lines 97 and 100
Recognized(m) == m = "dbsl" \/ m = "sl"

\* the dict object an argument refers to (dicts are passed by reference)
Deref(name) == IF name = "bonus_s" THEN bonus_s ELSE inv_tax_credit_s

ShippedParams ==
    [inflation_rate |-> Lit(2, 100), nominal_int_rate |-> Lit(6, 100),
     fraction_financed_w_debt |-> Lit(0, 1), E |-> Lit(6, 100),
     profit_rate |-> Lit(2, 10), int_haircut |-> Lit(0, 1),
     u_f |-> Lit(21, 100), u_s |-> Lit(43, 1000),
     franchise_tax_rate |-> Lit(3, 1000), tau_GR |-> Lit(0, 100)]
ShippedMethods ==
    [a \in AssetSet |-> IF a = "machines" THEN "dbsl" ELSE "sl"]

\* values of the configuration literals the model explores: the shipped
\* ones and the boundary values of u_f, u_s and tau_GR
UfValues == {Lit(21, 100), Lit(1, 1)}
UsValues == {Lit(43, 1000), Lit(1, 1)}
TauValues == {Lit(0, 100), Lit(1, 2), Lit(1, 1)}

\* a data frame: its column names in order and its rows in order, each row
\* with its index label and its cells by column name
NoTable == [columns |-> <<>>, rows |-> <<>>]

InitTables ==
    /\ base_df = NoTable /\ ar_citcut_df = NoTable /\ ar_frtaxrmv_df = NoTable
    /\ df = NoTable /\ fig12 = <<>>

InitFrame ==
    /\ args = NoArgs /\ out_dict = EmptyOut /\ i = 0
    /\ r = Unset /\ r_prime = Unset /\ z_f = Unset /\ z_s = Unset
    /\ rho = Unset /\ metr = Unset /\ eatr = Unset
    /\ lib_calls = NoCalls /\ coc_args = <<>> /\ result = EmptyOut
    /\ passed = [sc \in ScenarioSet |-> NoArgs]

Init ==
    /\ \E uf \in UfValues, us \in UsValues, tau \in TauValues :
          params = [ShippedParams EXCEPT !.u_f = uf, !.u_s = us,
                                         !.tau_GR = tau]
    /\ federal_bonus_depreciation =
          [a \in AssetSet |-> IF a = "buildings" THEN Lit(0, 10) ELSE Lit(4, 10)]
    /\ depreciation_rates =
          [a \in AssetSet |-> IF a = "machines" THEN Lit(1031, 10000)
                              ELSE IF a = "buildings" THEN Lit(314, 10000)
                              ELSE Lit(33, 100)]
    /\ depreciation_lives =
          [a \in AssetSet |-> IF a = "machines" THEN 7
                              ELSE IF a = "buildings" THEN 39 ELSE 3]
    /\ depreciation_methods \in [AssetSet -> MethodNames]
    /\ inv_tax_credit_s =
          [a \in AssetSet |-> IF a = "machines" THEN Lit(15, 1000)
                              ELSE IF a = "buildings" THEN Lit(25, 1000)
                              ELSE Lit(1, 100)]
    /\ bonus_s = [a \in AssetSet |-> Lit(0, 10)]
    /\ pc = "base" /\ cpc = "idle"
    /\ stdout = <<>> /\ error = "none"
    /\ InitTables /\ InitFrame

----------------------------------------------------------------------------
(* compute_outputs *)

\* the asset of the current iteration
k == Assets[i]

\* the combined statutory rate u_f + u_s - u_f * u_s of lines 93 and 112
CombinedRate == Sub(Add(params.u_f, args.u_s), Mul(params.u_f, args.u_s))

\* variant: the rate-cut call passes the current-law rate
ScenarioArgsNoCut(sc) ==
    [u_s |-> params.u_s,
     bonus_s |-> "bonus_s",
     franchise_tax_rate |-> IF sc = "frtaxrmv" THEN Lit(0, 1000)
                            ELSE params.franchise_tax_rate,
     tau_GR |-> params.tau_GR,
     inv_tax_credit |-> "inv_tax_credit_s"]

\* the arguments of the three calls of lines 122-124, 129-131 and 136-138
ScenarioArgs(sc) ==
    [u_s |-> IF sc = "citcut" THEN Lit(35, 1000) ELSE params.u_s,
     bonus_s |-> "bonus_s",
     franchise_tax_rate |-> IF sc = "frtaxrmv" THEN Lit(0, 1000)
                            ELSE params.franchise_tax_rate,
     tau_GR |-> params.tau_GR,
     inv_tax_credit |-> "inv_tax_credit_s"]

\* an exception nobody catches ends the script
Abort(err) ==
    /\ error' = err
    /\ cpc' = "raised"
    /\ pc' = "aborted"

\* entering compute_outputs: bind the arguments, build out_dict (line 90)
Call ==
    /\ pc \in ScenarioSet /\ cpc = "idle"
    /\ args' = ScenarioArgs(pc)
    /\ passed' = [passed EXCEPT ![pc] = ScenarioArgs(pc)]
    /\ out_dict' = FreshOut
    /\ i' = 1
    /\ r' = Unset /\ r_prime' = Unset /\ z_f' = Unset /\ z_s' = Unset
    /\ rho' = Unset /\ metr' = Unset /\ eatr' = Unset
    /\ lib_calls' = NoCalls /\ coc_args' = <<>>
    /\ cpc' = "for"
    /\ UNCHANGED <<globals, tables, pc, stdout, error, result>>

\* line 91: next asset, or leave the loop
For ==
    /\ cpc = "for"
    /\ cpc' = IF i <= Len(Assets) THEN "calc_r" ELSE "return"
    /\ UNCHANGED <<globals, tables, locals, pc, stdout, error, args,
                   out_dict, i, result, passed>>

\* lines 92-96
CalcR ==
    /\ cpc = "calc_r"
    /\ r' = calc_r(CombinedRate, params.nominal_int_rate,
                   params.inflation_rate, params.nominal_int_rate,
                   params.fraction_financed_w_debt, params.int_haircut,
                   params.E, Lit(0, 10))
    /\ r_prime' = calc_r_prime(params.nominal_int_rate, params.inflation_rate,
                               params.fraction_financed_w_debt, params.E)
    /\ cpc' = "depr"
    /\ UNCHANGED <<globals, tables, z_f, z_s, rho, metr, eatr, lib_calls,
                   coc_args, pc, stdout, error, args, out_dict, i, result,
                   passed>>

\* the value of a library call
Apply(call) ==
    IF call.fn = "dbsl"
    THEN dbsl(call.args[1], call.args[2], call.args[3], call.args[4])
    ELSE sl(call.args[1], call.args[2], call.args[3])

\* variant: the state present value computed with the federal bonus rate
DeprCallsFederalBonus ==
    LET Y == Int2Num(depreciation_lives[k])
        bf == federal_bonus_depreciation[k]
    IN  IF depreciation_methods[k] = "dbsl"
        THEN [z_f |-> [fn |-> "dbsl", args |-> <<Y, Int2Num(2), bf, r>>],
              z_s |-> [fn |-> "dbsl", args |-> <<Y, Int2Num(2), bf, r>>]]
        ELSE [z_f |-> [fn |-> "sl", args |-> <<Y, bf, r>>],
              z_s |-> [fn |-> "sl", args |-> <<Y, bf, r>>]]

\* lines 97-102: the two calls the configured method selects
DeprCalls ==
    LET Y == Int2Num(depreciation_lives[k])
        bf == federal_bonus_depreciation[k]
        bs == Deref(args.bonus_s)[k]
    IN  IF depreciation_methods[k] = "dbsl"
        THEN [z_f |-> [fn |-> "dbsl", args |-> <<Y, Int2Num(2), bf, r>>],
              z_s |-> [fn |-> "dbsl", args |-> <<Y, Int2Num(2), bs, r>>]]
        ELSE [z_f |-> [fn |-> "sl", args |-> <<Y, bf, r>>],
              z_s |-> [fn |-> "sl", args |-> <<Y, bs, r>>]]

\* lines 97-105
Depreciation ==
    /\ cpc = "depr"
    /\ IF Recognized(depreciation_methods[k])
       THEN /\ lib_calls' = DeprCalls
            /\ IF Apply(DeprCalls.z_f).cls = "exc"
                  \/ Apply(DeprCalls.z_s).cls = "exc"
               THEN /\ Abort("ZeroDivisionError")
                    /\ UNCHANGED <<z_f, z_s>>
               ELSE /\ z_f' = Apply(DeprCalls.z_f)
                    /\ z_s' = Apply(DeprCalls.z_s)
                    /\ cpc' = "coc"
                    /\ UNCHANGED <<pc, error>>
            /\ UNCHANGED stdout
       ELSE /\ stdout' = Append(stdout, "Please enter one of: dbsl, sl")
            /\ Abort("AssertionError")
            /\ UNCHANGED <<z_f, z_s, lib_calls>>
    /\ UNCHANGED <<globals, tables, r, r_prime, rho, metr, eatr, coc_args,
                   args, out_dict, i, result, passed>>

\* variant: the module-level franchise tax rate instead of the argument
CocArgsGlobalRate ==
    <<depreciation_rates[k], z_f, z_s, params.franchise_tax_rate, params.u_f,
      args.u_s, args.tau_GR, Deref(args.inv_tax_credit)[k],
      params.inflation_rate, r>>

\* the argument tuple of lines 106-109
CocArgs ==
    <<depreciation_rates[k], z_f, z_s, args.franchise_tax_rate, params.u_f,
      args.u_s, args.tau_GR, Deref(args.inv_tax_credit)[k],
      params.inflation_rate, r>>

CocValue(a) ==
    eq_coc_state(a[1], a[2], a[3], a[4], a[5], a[6], a[7], a[8], a[9], a[10])

\* lines 106-109
CostOfCapital ==
    /\ cpc = "coc"
    /\ coc_args' = CocArgs
    /\ IF CocValue(CocArgs).cls = "exc"
       THEN /\ Abort("ZeroDivisionError")
            /\ UNCHANGED rho
       ELSE /\ rho' = CocValue(CocArgs)
            /\ cpc' = "metr"
            /\ UNCHANGED <<pc, error>>
    /\ UNCHANGED <<globals, tables, r, r_prime, z_f, z_s, metr, eatr,
                   lib_calls, stdout, args, out_dict, i, result, passed>>

\* line 110
Metr ==
    /\ cpc = "metr"
    /\ LET v == eq_metr(rho, r_prime, params.inflation_rate) IN
       IF v.cls = "exc"
       THEN /\ Abort("ZeroDivisionError")
            /\ UNCHANGED metr
       ELSE /\ metr' = v
            /\ cpc' = "eatr"
            /\ UNCHANGED <<pc, error>>
    /\ UNCHANGED <<globals, tables, r, r_prime, z_f, z_s, rho, eatr,
                   lib_calls, coc_args, stdout, args, out_dict, i, result,
                   passed>>

\* lines 111-113
Eatr ==
    /\ cpc = "eatr"
    /\ LET v == eq_eatr(rho, metr, params.profit_rate, CombinedRate) IN
       IF v.cls = "exc"
       THEN /\ Abort("ZeroDivisionError")
            /\ UNCHANGED eatr
       ELSE /\ eatr' = v
            /\ cpc' = "store"
            /\ UNCHANGED <<pc, error>>
    /\ UNCHANGED <<globals, tables, r, r_prime, z_f, z_s, rho, metr,
                   lib_calls, coc_args, stdout, args, out_dict, i, result,
                   passed>>

\* variant: the metrics stored under the first asset's key
StoreFirstKey ==
    /\ cpc = "store"
    /\ out_dict' = [out_dict EXCEPT
                      ![Assets[1]] = [rho |-> rho, metr |-> metr, eatr |-> eatr]]
    /\ i' = i + 1
    /\ cpc' = "for"
    /\ UNCHANGED <<globals, tables, locals, pc, stdout, error, args, result,
                   passed>>

\* lines 114-116, and the step of the iterator
Store ==
    /\ cpc = "store"
    /\ out_dict' = [out_dict EXCEPT
                      ![k] = [rho |-> rho, metr |-> metr, eatr |-> eatr]]
    /\ i' = i + 1
    /\ cpc' = "for"
    /\ UNCHANGED <<globals, tables, locals, pc, stdout, error, args, result,
                   passed>>

\* line 117
Return ==
    /\ cpc = "return"
    /\ result' = out_dict
    /\ cpc' = "returned"
    /\ UNCHANGED <<globals, tables, locals, pc, stdout, error, args,
                   out_dict, i, passed>>

----------------------------------------------------------------------------
(* The reporting pipeline *)

\* pandas.DataFrame of a dict of dicts: one column per outer key, one row
\* per inner key
DataFrame(d) ==
    [columns |-> Assets,
     rows |-> [n \in 1..Len(Metrics) |->
                 [label |-> Metrics[n],
                  cells |-> [a \in AssetSet |-> d[a][Metrics[n]]]]]]

\* t[c] = v for a scalar v: a new last column holding v in every row
WithColumn(t, c, v) ==
    [columns |-> Append(t.columns, c),
     rows |-> [n \in 1..Len(t.rows) |->
                 [label |-> t.rows[n].label,
                  cells |-> [x \in DOMAIN t.rows[n].cells \cup {c} |->
                               IF x = c THEN v ELSE t.rows[n].cells[x]]]]]

\* t.reset_index(): the labels become the first column, named "index"
ResetIndexOf(t) ==
    [columns |-> <<"index">> \o t.columns,
     rows |-> [n \in 1..Len(t.rows) |->
                 [label |-> n - 1,
                  cells |-> [x \in DOMAIN t.rows[n].cells \cup {"index"} |->
                               IF x = "index" THEN t.rows[n].label
                               ELSE t.rows[n].cells[x]]]]]

\* t.rename(columns={old: new})
RenameOf(t, old, new) ==
    LET ren(x) == IF x = old THEN new ELSE x
        back(x) == IF x = new THEN old ELSE x
    IN  [columns |-> [n \in 1..Len(t.columns) |-> ren(t.columns[n])],
         rows |-> [n \in 1..Len(t.rows) |->
                     [label |-> t.rows[n].label,
                      cells |-> [x \in {ren(y) : y \in DOMAIN t.rows[n].cells}
                                   |-> t.rows[n].cells[back(x)]]]]]

\* pandas.melt(t, id_vars=[id1, id2], var_name=var): one row per value
\* column and original row, value columns outermost
MeltOf(t, id1, id2, var) ==
    LET vcols == SelectSeq(t.columns, LAMBDA c : c \notin {id1, id2})
        nrows == Len(t.rows)
    IN  [columns |-> <<id1, id2, var, "value">>,
         rows |-> [n \in 1..(Len(vcols) * nrows) |->
                     LET c   == vcols[((n - 1) \div nrows) + 1]
                         row == t.rows[((n - 1) % nrows) + 1]
                     IN  [label |-> n - 1,
                          cells |-> [x \in {id1, id2, var, "value"} |->
                                       IF x = var THEN c
                                       ELSE IF x = "value" THEN row.cells[c]
                                       ELSE row.cells[x]]]]]

\* variant: the third table labelled like the first
PolicyNameReused(sc) ==
    IF sc = "citcut" THEN "Lower AR CIT rate to 3.5%" ELSE "Current Law"

\* the policy names of lines 142-144
PolicyName(sc) ==
    IF sc = "base" THEN "Current Law"
    ELSE IF sc = "citcut" THEN "Lower AR CIT rate to 3.5%"
    ELSE "Remove AR franchise tax"
PolicySet == {PolicyName(sc) : sc \in ScenarioSet}

\* lines 121-139: the returned mapping becomes the scenario's data frame
MakeFrame ==
    /\ cpc = "returned"
    /\ base_df' = IF pc = "base" THEN DataFrame(result) ELSE base_df
    /\ ar_citcut_df' = IF pc = "citcut" THEN DataFrame(result)
                       ELSE ar_citcut_df
    /\ ar_frtaxrmv_df' = IF pc = "frtaxrmv" THEN DataFrame(result)
                         ELSE ar_frtaxrmv_df
    /\ pc' = IF pc = "base" THEN "citcut"
             ELSE IF pc = "citcut" THEN "frtaxrmv" ELSE "label"
    /\ cpc' = "idle"
    /\ UNCHANGED <<globals, df, fig12, locals, stdout, error, args, out_dict,
                   i, result, passed>>

\* lines 142-144
Label ==
    /\ pc = "label"
    /\ base_df' = WithColumn(base_df, "Policy", PolicyName("base"))
    /\ ar_citcut_df' = WithColumn(ar_citcut_df, "Policy", PolicyName("citcut"))
    /\ ar_frtaxrmv_df' =
          WithColumn(ar_frtaxrmv_df, "Policy", PolicyName("frtaxrmv"))
    /\ pc' = "concat"
    /\ UNCHANGED <<globals, df, fig12, locals, stdout, error, cpc, args,
                   out_dict, i, result, passed>>

\* line 146
Concat ==
    /\ pc = "concat"
    /\ df' = [columns |-> base_df.columns,
              rows |-> base_df.rows \o ar_citcut_df.rows \o ar_frtaxrmv_df.rows]
    /\ pc' = "reset_index"
    /\ UNCHANGED <<globals, base_df, ar_citcut_df, ar_frtaxrmv_df, fig12,
                   locals, stdout, error, cpc, args, out_dict, i, result,
                   passed>>

\* line 147
ResetIndex ==
    /\ pc = "reset_index"
    /\ df' = ResetIndexOf(df)
    /\ pc' = "rename"
    /\ UNCHANGED <<globals, base_df, ar_citcut_df, ar_frtaxrmv_df, fig12,
                   locals, stdout, error, cpc, args, out_dict, i, result,
                   passed>>

\* line 148
Rename ==
    /\ pc = "rename"
    /\ df' = RenameOf(df, "index", "output_var")
    /\ pc' = "melt"
    /\ UNCHANGED <<globals, base_df, ar_citcut_df, ar_frtaxrmv_df, fig12,
                   locals, stdout, error, cpc, args, out_dict, i, result,
                   passed>>

\* line 149
Melt ==
    /\ pc = "melt"
    /\ df' = MeltOf(df, "Policy", "output_var", "asset_type")
    /\ pc' = "plot"
    /\ UNCHANGED <<globals, base_df, ar_citcut_df, ar_frtaxrmv_df, fig12,
                   locals, stdout, error, cpc, args, out_dict, i, result,
                   passed>>

\* lines 154-159: one bar per row with output_var "metr" and asset_type
\* "machines"
Plot ==
    /\ pc = "plot"
    /\ fig12' = LET sel == SelectSeq(df.rows,
                              LAMBDA row : /\ row.cells["output_var"] = "metr"
                                           /\ row.cells["asset_type"] = "machines")
                IN  [n \in 1..Len(sel) |-> [x |-> sel[n].cells["Policy"],
                                            y |-> sel[n].cells["value"]]]
    /\ pc' = "done"
    /\ UNCHANGED <<globals, base_df, ar_citcut_df, ar_frtaxrmv_df, df, locals,
                   stdout, error, cpc, args, out_dict, i, result, passed>>

ComputeOutputsStep ==
    \/ Call \/ For \/ CalcR \/ Depreciation \/ CostOfCapital
    \/ Metr \/ Eatr \/ Store \/ Return

Next ==
    \/ ComputeOutputsStep
    \/ MakeFrame \/ Label \/ Concat \/ ResetIndex \/ Rename \/ Melt \/ Plot

Spec == Init /\ [][Next]_vars

----------------------------------------------------------------------------
(* The call of eq_coc_state on its own: compute_outputs stands at lines    *)
(* 106-109 with arbitrary dyadic values in its arguments, its locals and   *)
(* the configuration it reads, so that every operation of the formula is   *)
(* exact in binary64.                                                      *)

DyadicRates ==
    [a \in AssetSet |-> IF a = "machines" THEN Lit(1, 4)
                        ELSE IF a = "buildings" THEN Lit(1, 2) ELSE Lit(0, 1)]
DyadicCredits ==
    [a \in AssetSet |-> IF a = "machines" THEN Lit(0, 1)
                        ELSE IF a = "buildings" THEN Lit(1, 4) ELSE Lit(1, 2)]
DyadicPV == {AsNp(Lit(0, 1)), AsNp(Lit(1, 2)), AsNp(Lit(1, 1))}

InitCoc ==
    /\ \E uf \in {Lit(0, 1), Lit(1, 2), Lit(1, 1)},
          infl \in {Lit(0, 1), Lit(1, 4)} :
          params = [ShippedParams EXCEPT !.u_f = uf, !.inflation_rate = infl]
    /\ federal_bonus_depreciation =
          [a \in AssetSet |-> IF a = "buildings" THEN Lit(0, 10) ELSE Lit(4, 10)]
    /\ depreciation_rates = DyadicRates
    /\ depreciation_lives =
          [a \in AssetSet |-> IF a = "machines" THEN 7
                              ELSE IF a = "buildings" THEN 39 ELSE 3]
    /\ depreciation_methods = ShippedMethods
    /\ inv_tax_credit_s = DyadicCredits
    /\ bonus_s = [a \in AssetSet |-> Lit(0, 10)]
    /\ pc = "base" /\ cpc = "coc"
    /\ stdout = <<>> /\ error = "none"
    /\ InitTables
    /\ \E us \in {Lit(0, 1), Lit(1, 2)}, w \in {Lit(0, 1), Lit(1, 4)},
          tau \in {Lit(0, 1), Lit(1, 2), Lit(1, 1)} :
          args = [u_s |-> us, bonus_s |-> "bonus_s", franchise_tax_rate |-> w,
                  tau_GR |-> tau, inv_tax_credit |-> "inv_tax_credit_s"]
    /\ passed = [sc \in ScenarioSet |-> IF sc = "base" THEN args ELSE NoArgs]
    /\ i \in 1..Len(Assets)
    /\ out_dict = EmptyOut /\ result = EmptyOut
    /\ r \in {Lit(1, 4), Lit(1, 2)} /\ r_prime = r
    /\ z_f \in DyadicPV /\ z_s \in DyadicPV
    /\ rho = Unset /\ metr = Unset /\ eatr = Unset
    /\ lib_calls = NoCalls /\ coc_args = <<>>

NextCoc == CostOfCapital

SpecCoc == InitCoc /\ [][NextCoc]_vars

----------------------------------------------------------------------------
(* Properties *)

\* the depreciation step of the current asset has completed
PastDepr == cpc \in {"coc", "metr", "eatr", "store"}

\* C1: an asset whose configured method is neither "dbsl" nor "sl" stops the
\* evaluation at that asset: nothing is computed for an asset with an
\* unrecognized method, and when the assertion fails the diagnostic has been
\* printed, the failing asset and every later one have no stored outputs,
\* and no mapping was returned and no table built.
C1_InvalidMethodHalts ==
    /\ \A n \in 1..Len(Assets) :
          (n < i \/ (n = i /\ PastDepr))
             => depreciation_methods[Assets[n]] \in {"dbsl", "sl"}
    /\ \A a \in AssetSet :
          DOMAIN out_dict[a] # {} => depreciation_methods[a] \in {"dbsl", "sl"}
    /\ (cpc = "depr" /\ depreciation_methods[k] \notin {"dbsl", "sl"})
          => \A n \in i..Len(Assets) : DOMAIN out_dict[Assets[n]] = {}
    /\ error = "AssertionError" =>
          /\ pc = "aborted" /\ cpc = "raised"
          /\ depreciation_methods[k] \notin {"dbsl", "sl"}
          /\ stdout = <<"Please enter one of: dbsl, sl">>
          /\ \A n \in i..Len(Assets) : DOMAIN out_dict[Assets[n]] = {}
          /\ result = EmptyOut
          /\ base_df = NoTable /\ ar_citcut_df = NoTable
          /\ ar_frtaxrmv_df = NoTable /\ df = NoTable /\ fig12 = <<>>

\* the assertion failed at the second asset, after the first asset's outputs
\* were stored
C1_Witness ==
    /\ error = "AssertionError" /\ i = 2
    /\ DOMAIN out_dict["machines"] = MetricSet

\* C2: the configured method alone selects the formula: "dbsl" calls the
\* declining-balance formula with (life, 2, bonus, r), "sl" the straight-line
\* formula with (life, bonus, r); z_f uses the asset's federal bonus rate,
\* z_s the asset's state bonus rate of the scenario's map, both with the
\* same r, and z_f and z_s are the values of those calls.
C2_FormulaSelection ==
    PastDepr =>
       LET Y  == Int2Num(depreciation_lives[k])
           bf == federal_bonus_depreciation[k]
           bs == bonus_s[k]
       IN  /\ args.bonus_s = "bonus_s"
           /\ depreciation_methods[k] = "dbsl" =>
                 /\ lib_calls.z_f.fn = "dbsl" /\ lib_calls.z_s.fn = "dbsl"
                 /\ lib_calls.z_f.args = <<Y, Int2Num(2), bf, r>>
                 /\ lib_calls.z_s.args = <<Y, Int2Num(2), bs, r>>
                 /\ z_f = dbsl(Y, Int2Num(2), bf, r)
                 /\ z_s = dbsl(Y, Int2Num(2), bs, r)
           /\ depreciation_methods[k] = "sl" =>
                 /\ lib_calls.z_f.fn = "sl" /\ lib_calls.z_s.fn = "sl"
                 /\ lib_calls.z_f.args = <<Y, bf, r>>
                 /\ lib_calls.z_s.args = <<Y, bs, r>>
                 /\ z_f = sl(Y, bf, r)
                 /\ z_s = sl(Y, bs, r)
           /\ lib_calls.z_f.fn = depreciation_methods[k]

\* the declining-balance asset has both present values, and they differ
\* because the federal and the state bonus rates differ
C2_Witness ==
    /\ PastDepr /\ k = "machines" /\ depreciation_methods[k] = "dbsl"
    /\ z_f # z_s

\* C3: with both denominators non-zero, the rho that eq_coc_state returns
\* satisfies
\*   ((rho + delta) * (1 - tau_GR) - w) * (1 - u_f - u_s + u_f*u_s)
\*      = (r - pi + delta) * (1 - ITC - u_f*z_f - u_s*z_s + u_f*u_s*z_s)
\* exactly (every product below is representable), which is the formula of
\* the claim multiplied out: w enters before the gross-up and delta is
\* subtracted after it.  compute_outputs passes the asset's depreciation
\* rate, z_f, z_s, the scenario's franchise tax rate, u_f, the scenario's
\* u_s and tau_GR, the scenario's investment tax credit of the asset, the
\* inflation rate and r, in that order.
C3_CostOfCapitalFormula ==
    (cpc = "metr" /\ coc_args # <<>>) =>
       LET delta == coc_args[1]   zf  == coc_args[2]   zs == coc_args[3]
           w     == coc_args[4]   uf  == coc_args[5]   us == coc_args[6]
           tau   == coc_args[7]   itc == coc_args[8]   infl == coc_args[9]
           rr    == coc_args[10]
           comb    == Add(Sub(Sub(One, uf), us), Mul(uf, us))
           bracket == Add(Sub(Sub(Sub(One, itc), Mul(uf, zf)), Mul(us, zs)),
                          Mul(Mul(uf, us), zs))
           gross   == Mul(Add(rho, delta), Sub(One, tau))
           lhs     == Mul(Sub(gross, w), comb)
           rhs     == Mul(Add(Sub(rr, infl), delta), bracket)
       IN  /\ delta = depreciation_rates[k]
           /\ zf = z_f /\ zs = z_s
           /\ w = args.franchise_tax_rate
           /\ uf = params.u_f /\ us = args.u_s /\ tau = args.tau_GR
           /\ args.inv_tax_credit = "inv_tax_credit_s"
           /\ itc = inv_tax_credit_s[k]
           /\ infl = params.inflation_rate
           /\ rr = r
           /\ (~IsZero(comb) /\ ~IsZero(Sub(One, tau))) =>
                 /\ IsFin(rho)
                 /\ ExactMul(uf, us) /\ ExactMul(uf, zf) /\ ExactMul(us, zs)
                 /\ ExactMul(Mul(uf, us), zs)
                 /\ ExactMul(Add(rho, delta), Sub(One, tau))
                 /\ ExactMul(Sub(gross, w), comb)
                 /\ ExactMul(Add(Sub(rr, infl), delta), bracket)
                 /\ Equal(lhs, rhs)

\* a call in which every term of the formula is non-zero, the gross-up
\* divides by 1/2 and the combined-rate denominator is 1/4
C3_Witness ==
    /\ cpc = "metr" /\ IsFin(rho) /\ ~IsZero(rho)
    /\ coc_args[7] = Lit(1, 2) /\ coc_args[4] = Lit(1, 4)
    /\ coc_args[5] = Lit(1, 2) /\ coc_args[6] = Lit(1, 2)
    /\ coc_args[2] = AsNp(Lit(1, 1)) /\ coc_args[3] = AsNp(Lit(1, 2))
    /\ coc_args[1] = Lit(1, 2) /\ coc_args[8] = Lit(1, 4)
    /\ coc_args[9] = Lit(1, 4) /\ coc_args[10] = Lit(1, 2)

\* the cell of a scenario's data frame for one metric and one asset
Cell(t, m, a) ==
    LET n == CHOOSE n \in 1..Len(t.rows) : t.rows[n].label = m
    IN  t.rows[n].cells[a]

\* the key of a row of the long table
RowKey(row) ==
    <<row.cells["Policy"], row.cells["output_var"], row.cells["asset_type"]>>

\* C4: once melted, the long table has exactly 27 rows, no two rows share
\* their (Policy, output_var, asset_type) key, and every combination of
\* policy, metric and asset type is the key of a row.
C4_LongTable ==
    pc \in {"plot", "done"} =>
       /\ Len(df.rows) = 27
       /\ df.columns = <<"Policy", "output_var", "asset_type", "value">>
       /\ \A m, n \in 1..Len(df.rows) :
             RowKey(df.rows[m]) = RowKey(df.rows[n]) => m = n
       /\ \A p \in PolicySet, m \in MetricSet, a \in AssetSet :
             \E n \in 1..Len(df.rows) : RowKey(df.rows[n]) = <<p, m, a>>

\* the melted table of the shipped configuration
C4_Witness ==
    /\ pc = "done" /\ params = ShippedParams
    /\ depreciation_methods = ShippedMethods
    /\ Len(df.rows) > 0 /\ Len(fig12) = 3

\* all nine outputs of a scenario's data frame are finite
FiniteTable(t) ==
    \A m \in MetricSet, a \in AssetSet : IsFin(Cell(t, m, a))

\* C5: the rate-cut call differs from the current-law call only in the state
\* statutory rate (0.035 against the configured 0.043), and for every asset
\* type its metr is strictly lower than the current-law metr.
C5_RateCutLowersMetr ==
    (/\ pc \in {"frtaxrmv", "label"} /\ FiniteTable(base_df)
     /\ params.u_s = ShippedParams.u_s) =>
       /\ passed["citcut"] = [passed["base"] EXCEPT !.u_s = Lit(35, 1000)]
       /\ passed["base"].u_s = Lit(43, 1000)
       /\ FiniteTable(ar_citcut_df)
       /\ \A a \in AssetSet :
             Less(Cell(ar_citcut_df, "metr", a), Cell(base_df, "metr", a))

\* both tables exist for the shipped configuration
C5_Witness ==
    /\ pc = "frtaxrmv" /\ cpc = "idle" /\ params = ShippedParams
    /\ depreciation_methods = ShippedMethods
    /\ FiniteTable(base_df) /\ FiniteTable(ar_citcut_df)

\* C6: the franchise-tax-removal call differs from the current-law call only
\* in the franchise tax rate (0.0 against 0.003), and for every asset type
\* its rho and its metr are strictly lower than under current law.
C6_RemovalLowersRhoAndMetr ==
    (pc = "label" /\ FiniteTable(base_df) /\ params.u_s = ShippedParams.u_s) =>
       /\ passed["frtaxrmv"] =
             [passed["base"] EXCEPT !.franchise_tax_rate = Lit(0, 1000)]
       /\ passed["base"].franchise_tax_rate = Lit(3, 1000)
       /\ FiniteTable(ar_frtaxrmv_df)
       /\ \A a \in AssetSet :
             /\ Less(Cell(ar_frtaxrmv_df, "rho", a), Cell(base_df, "rho", a))
             /\ Less(Cell(ar_frtaxrmv_df, "metr", a), Cell(base_df, "metr", a))

\* all three tables exist for the shipped configuration
C6_Witness ==
    /\ pc = "label" /\ params = ShippedParams
    /\ depreciation_methods = ShippedMethods
    /\ FiniteTable(base_df) /\ FiniteTable(ar_frtaxrmv_df)

AllRecognized == \A a \in AssetSet : depreciation_methods[a] \in {"dbsl", "sl"}

\* a step of a compute_outputs evaluation is about to be taken
InEvaluation == pc \in ScenarioSet /\ cpc # "returned"

\* C8: no step of a compute_outputs evaluation changes the module-level
\* configuration or the maps passed as arguments, nor the data frames of
\* earlier evaluations, nor (before its own return) the mapping an earlier
\* evaluation returned; it prints nothing when every method is recognized;
\* and every call starts from a new, empty result mapping and unbound locals.
C8_NoSideEffects ==
    [][InEvaluation =>
          /\ globals' = globals
          /\ tables' = tables
          /\ (cpc # "return" => result' = result)
          /\ (AllRecognized => stdout' = stdout)
          /\ (cpc = "idle" =>
                 /\ \A a \in AssetSet : DOMAIN out_dict'[a] = {}
                 /\ r' = Unset /\ z_f' = Unset /\ z_s' = Unset /\ rho' = Unset
                 /\ metr' = Unset /\ eatr' = Unset)]_vars

\* the second evaluation stores its outputs while the first one's data frame
\* exists
C8_Witness ==
    /\ pc = "citcut" /\ cpc = "store" /\ i = 2
    /\ Len(base_df.rows) = 3 /\ DOMAIN result["machines"] = MetricSet

\* the two denominators of the last eq_coc_state call
CombOf(a) == Add(Sub(Sub(One, a[5]), a[6]), Mul(a[5], a[6]))
GrossOf(a) == Sub(One, a[7])

NothingProduced ==
    /\ base_df = NoTable /\ ar_citcut_df = NoTable /\ ar_frtaxrmv_df = NoTable
    /\ df = NoTable /\ fig12 = <<>> /\ result = EmptyOut

\* the expression 1 - u_f - u_s + u_f*u_s = (1 - u_f)(1 - u_s) vanishes over
\* the reals
DegenerateRates(a) == Equal(a[5], One) \/ Equal(a[6], One)

\* C9 as stated: a vanishing combined-rate denominator and tau_GR = 1 both
\* make eq_coc_state fail, the failure ends the run, and no table or chart
\* is produced.
C9_AsStated ==
    (coc_args # <<>> /\ (DegenerateRates(coc_args) \/ IsZero(GrossOf(coc_args))))
       => /\ error = "ZeroDivisionError" /\ pc = "aborted"
          /\ NothingProduced

\* C9, amended: when the combined-rate denominator evaluates to zero in
\* floating point (as it does for u_f = 1.0) the division raises
\* ZeroDivisionError (the dividend r - pi + delta is a built-in float), the
\* run ends and nothing is produced; with u_s = 1.0 and u_f = 0.21 the
\* expression vanishes over the reals but evaluates to 2^-55, nothing is
\* raised and rho is a huge finite number; with tau_GR = 1 and a non-zero
\* combined-rate denominator the dividend of the gross-up is a numpy scalar,
\* the division does not raise, rho is inf, -inf or nan, and the run goes on
\* to produce the table and the chart with non-finite values.
C9_DegenerateDenominators ==
    /\ (coc_args # <<>> /\ IsZero(CombOf(coc_args))) =>
          /\ error = "ZeroDivisionError" /\ pc = "aborted" /\ cpc = "raised"
          /\ rho = Unset
          /\ NothingProduced
    /\ (coc_args # <<>> /\ Equal(coc_args[5], One)) => IsZero(CombOf(coc_args))
    /\ (coc_args # <<>> /\ coc_args[5] = Lit(21, 100)
          /\ coc_args[6] = Lit(1, 1)) =>
          /\ CombOf(coc_args) = Fin("py", 0, BShl(BOne, Precision - 1),
                                  -(Precision + 2) - (Precision - 1))
          /\ error # "ZeroDivisionError"
          /\ ~IsZero(GrossOf(coc_args)) =>
                /\ IsFin(rho) /\ Less(Int2Num(10^9), rho)
    /\ (coc_args # <<>> /\ ~IsZero(CombOf(coc_args))
          /\ IsZero(GrossOf(coc_args))) =>
          /\ error # "ZeroDivisionError"
          /\ rho.kind = "np" /\ rho.cls \in {"inf", "ninf", "nan"}
    /\ (pc = "done" /\ params.tau_GR = Lit(1, 1)) =>
          /\ Len(df.rows) = 27 /\ Len(fig12) = 3
          /\ \A n \in 1..Len(fig12) : ~IsFin(fig12[n].y)

\* the run with u_f = 0.21, u_s = 1.0 and tau_GR = 1 finished and drew its
\* chart: the combined-rate denominator of its last call was not zero
C9_Witness ==
    /\ pc = "done" /\ params.tau_GR = Lit(1, 1) /\ error = "none"
    /\ Len(fig12) = 3 /\ fig12[1].y.cls = "nan"
    /\ coc_args[5] = Lit(21, 100) /\ coc_args[6] = Lit(1, 1)
    /\ ~IsZero(CombOf(coc_args))

\* C10: the returned mapping has exactly the asset types as keys (the keys
\* of depreciation_rates), each entry has exactly rho, metr and eatr, with
\* metr derived from the entry's rho and eatr from the entry's rho and metr;
\* during the loop every asset already iterated has its complete entry and
\* no other asset has any, and the entry stored for an asset holds the
\* values computed in that asset's iteration.
C10_ResultShape ==
    /\ cpc = "returned" =>
          /\ DOMAIN result = AssetSet
          /\ DOMAIN result = DOMAIN depreciation_rates
          /\ \A a \in AssetSet :
                /\ DOMAIN result[a] = MetricSet
                /\ result[a].metr =
                      eq_metr(result[a].rho, r_prime, params.inflation_rate)
                /\ result[a].eatr =
                      eq_eatr(result[a].rho, result[a].metr,
                              params.profit_rate, CombinedRate)
    /\ cpc \in {"for", "calc_r", "depr", "coc", "metr", "eatr", "store",
                "return"} =>
          \A n \in 1..Len(Assets) :
             DOMAIN out_dict[Assets[n]] = IF n < i THEN MetricSet ELSE {}
    /\ cpc = "return" => i = Len(Assets) + 1
    /\ cpc = "store" =>
          /\ coc_args[1] = depreciation_rates[k]
          /\ rho = CocValue(coc_args)
          /\ metr = eq_metr(rho, r_prime, params.inflation_rate)
          /\ eatr = eq_eatr(rho, metr, params.profit_rate, CombinedRate)
    /\ (cpc = "for" /\ i > 1) =>
          /\ DOMAIN out_dict[Assets[i - 1]] = MetricSet
          /\ out_dict[Assets[i - 1]].rho = rho
          /\ out_dict[Assets[i - 1]].metr = metr
          /\ out_dict[Assets[i - 1]].eatr = eatr

\* a call of the shipped configuration has returned its mapping
C10_Witness ==
    /\ cpc = "returned" /\ pc = "base" /\ params = ShippedParams
    /\ depreciation_methods = ShippedMethods
    /\ \A a \in AssetSet : IsFin(result[a].rho)

====
